---- MODULE Spec2Model ----
(***************************************************************************)
(* Model of the cineai processing / indexing / retrieval pipeline:         *)
(*   backend/app/services/orchestrator.py            ProcessingOrchestrator *)
(*   backend/app/services/semantic_search_service.py SemanticSearchService  *)
(*                                                                         *)
(* Fixed-point conventions.  Embeddings are short integer vectors whose    *)
(* unit length is UnitNorm, so an inner product of two unit vectors is a   *)
(* confidence in percent (-100..100); keyword confidences are percent too  *)
(* (min(0.95, 0.5 + 0.1*m) is min(95, 50 + 10*m)).  Stage weights are      *)
(* doubled (2, 2, 1, 0.5, 0.5 become 4, 4, 2, 1, 1), which leaves every    *)
(* ratio current_weight / total_weight unchanged.                          *)
(***************************************************************************)
EXTENDS Integers, Sequences, FiniteSets, TLC

VARIABLES
    faiss,        \* FAISS_AVAILABLE (module constant, fixed per process)
    sentence_model, \* whether get_sentence_model() yields a model ("mock" otherwise)
    hashseed,     \* the salt of str hashes, drawn once per process
    vectors,      \* self.index: the stored rows, ntotal = Len(vectors)
    metadata,     \* self.metadata: parallel list of moment records
    disk,         \* INDEX_PATH / METADATA_PATH contents
    atSave,       \* history: the in-memory index at the last save_index()
    fresh,        \* history: TRUE right after a fresh instance loaded from disk
    origin,       \* history: "created" (a new index) or "loaded" (read from disk)
    reply,        \* the last reply handed to a caller (search or get_status)
    spacy,        \* whether nlp_service.get_nlp() yields a language model
    progress,     \* orchestrator._progress: take id -> ProgressState
    run,          \* per slot: the locals of one process_take coroutine
    active,       \* the coroutine running between two suspension points, or "none"
    db,           \* committed Take rows
    starts,       \* number of process_take calls made so far
    openSessions, \* SessionLocal() sessions opened and not closed
    hist          \* history, per take id: what the latest process_take calls did

indexVars == <<faiss, sentence_model, hashseed, vectors, metadata, disk, atSave, fresh, origin, reply>>
orchVars  == <<spacy, progress, run, active, db, starts, openSessions, hist>>
vars      == <<faiss, sentence_model, hashseed, vectors, metadata, disk, atSave, fresh, origin, reply,
               spacy, progress, run, active, db, starts, openSessions, hist>>

-----------------------------------------------------------------------------
(* Bounds of the model. *)

MaxMoments == 4      \* moments the index may hold
MaxTopK    == 2      \* largest top_k a search asks for
MaxStarts  == 2      \* process_take calls in one behaviour

-----------------------------------------------------------------------------
(* Sequences and vectors. *)

Range(s) == {s[i] : i \in 1..Len(s)}

Min2(a, b) == IF a <= b THEN a ELSE b

Take(s, n) == SubSeq(s, 1, Min2(n, Len(s)))

RECURSIVE SumSeq(_)
SumSeq(s) == IF s = <<>> THEN 0 ELSE Head(s) + SumSeq(Tail(s))

Dot(u, v) == SumSeq([i \in 1..Len(u) |-> u[i] * v[i]])

\* np.linalg.norm on the model's vectors (all have an integral length).
Norm(v) == CHOOSE n \in 0..(4 * 10) : n * n = Dot(v, v)

UnitNorm == 10

ZeroVec == <<0, 0>>

\* self.dimension (EMBEDDING_DIM), scaled down to the model's vectors.
Dim == Len(ZeroVec)

\* embedding / np.linalg.norm(embedding) when the norm is positive.
Normalize(v) ==
    IF Norm(v) > 0 THEN [i \in 1..Len(v) |-> (v[i] * UnitNorm) \div Norm(v)]
    ELSE v

-----------------------------------------------------------------------------
(* Texts.  A text is the set of its words; Python's `term in text` finds   *)
(* a term inside a word, so containment goes through the substring table.  *)

SubstrPairs ==
    { <<"sad", "sadness">>, <<"laugh", "laughter">>, <<"fir", "first">> }

Substr(term, word) == term = word \/ <<term, word>> \in SubstrPairs

\* `term in text` for a term without blanks.
Contains(term, text) == \E w \in text : Substr(term, w)

-----------------------------------------------------------------------------
(* NumpyIndex / faiss.IndexFlatIP *)

\* index.add(x): a row of another width cannot be concatenated.
IndexAdd(vecs, x) ==
    IF Len(x) = Dim THEN [raised |-> FALSE, vectors |-> Append(vecs, x)]
    ELSE [raised |-> TRUE, vectors |-> vecs]

Scores(vecs, q) == [i \in 1..Len(vecs) |-> Dot(q, vecs[i])]

\* np.argsort(scores) for one row: ascending, equal scores in index order.
RECURSIVE ArgSortAsc(_, _)
ArgSortAsc(sc, left) ==
    IF left = {} THEN <<>>
    ELSE LET m == CHOOSE i \in left :
                      \A j \in left : sc[i] < sc[j] \/ (sc[i] = sc[j] /\ i <= j)
         IN  <<m>> \o ArgSortAsc(sc, left \ {m})

Reverse(s) == [i \in 1..Len(s) |-> s[Len(s) + 1 - i]]

\* s[-k:] of Python: the last k items, everything when k = 0 or k > len(s).
LastK(s, k) ==
    IF k <= 0 \/ k >= Len(s) THEN s ELSE SubSeq(s, Len(s) - k + 1, Len(s))

\* NumpyIndex.search(q, k): 1-based row numbers, best first.
NumpySearch(vecs, q, k) ==
    IF Len(vecs) = 0 THEN <<>>
    ELSE Reverse(LastK(ArgSortAsc(Scores(vecs, q), 1..Len(vecs)), k))

Perms(S) ==
    {p \in [1..Cardinality(S) -> S] : \A i, j \in 1..Cardinality(S) : i # j => p[i] # p[j]}

\* faiss.IndexFlatIP.search(q, k), k <= ntotal: the k rows of largest inner
\* product, best first; the library fixes no order among equal scores.
FaissSearch(vecs, q, k) ==
    LET sc == Scores(vecs, q)
    IN  { SubSeq(p, 1, k) : p \in { r \in Perms(1..Len(vecs)) :
              \A i \in 1..(Len(vecs) - 1) : sc[r[i]] >= sc[r[i + 1]] } }

-----------------------------------------------------------------------------
(* SemanticSearchService *)

NoDisk == [hasIndex |-> FALSE, index |-> <<>>, hasMeta |-> FALSE, meta |-> <<>>]

\* _create_new_index()
CreateNewIndex == [vectors |-> <<>>, metadata |-> <<>>]

\* _load_or_create_index(): FAISS reads both files; without FAISS only the
\* metadata file is read and the matrix starts empty.
LoadOrCreateIndex(fa, d) ==
    IF fa /\ d.hasIndex /\ d.hasMeta THEN [vectors |-> d.index, metadata |-> d.meta]
    ELSE IF d.hasMeta THEN [vectors |-> <<>>, metadata |-> d.meta]
    ELSE CreateNewIndex

\* save_index(): the index file is written only by FAISS.
SaveIndex(fa, d, vecs, meta) ==
    [hasIndex |-> d.hasIndex \/ fa,
     index    |-> IF fa THEN vecs ELSE d.index,
     hasMeta  |-> TRUE,
     meta     |-> meta]

\* index_moment() with the record appended before the row is added: the
\* record stays when the add raises.
index_moment_recordFirst(vecs, meta, embedding, rec) ==
    LET added == IndexAdd(vecs, Normalize(embedding))
    IN  [raised |-> added.raised, vectors |-> added.vectors,
         metadata |-> Append(meta, rec)]

\* index_moment() that adds the row and returns before the record is appended.
index_moment_rowOnly(vecs, meta, embedding, rec) ==
    LET added == IndexAdd(vecs, Normalize(embedding))
    IN  [raised |-> added.raised, vectors |-> added.vectors, metadata |-> meta]

\* index_moment(): normalise, add the row, then append the record.
index_moment(vecs, meta, embedding, rec) ==
    LET added == IndexAdd(vecs, Normalize(embedding))
    IN  IF added.raised THEN [raised |-> TRUE, vectors |-> vecs, metadata |-> meta]
        ELSE [raised |-> FALSE, vectors |-> added.vectors,
              metadata |-> Append(meta, rec)]

NoFilters == [has_take |-> FALSE, take_id |-> 0, has_emotion |-> FALSE, emotion |-> ""]

\* `filters.get("take_id") and meta["take_id"] != filters["take_id"]` and the
\* same for "emotion": a missing, zero or empty filter value is skipped.
FilteredOut(m, f) ==
    \/ (f.has_take /\ f.take_id # 0 /\ m.take_id # f.take_id)
    \/ (f.has_emotion /\ f.emotion # "" /\ m.emotion_label # f.emotion)

SearchResult(idx, m, score) ==
    [result_id |-> idx - 1, take_id |-> m.take_id, moment_id |-> m.moment_id,
     confidence |-> score, emotion_label |-> m.emotion_label]

\* The per-record keyword score of _keyword_search.
Matches(terms, m) ==
    SumSeq([i \in 1..Len(terms) |->
        (IF Contains(terms[i], m.transcript) THEN 5 ELSE 0)
      + (IF Contains(terms[i], {m.emotion_label}) THEN 3 ELSE 0)
      + (IF Contains(terms[i], m.file_name) THEN 2 ELSE 0)
      + (IF Contains(terms[i], {m.pattern}) THEN 4 ELSE 0)
      + (IF m.laughter /\ Contains(terms[i], {"laughter"}) THEN 6 ELSE 0)])

KeywordScore(matches) == Min2(95, 50 + matches * 10)

\* The scan of _keyword_search over self.metadata, in insertion order.
RECURSIVE KeywordScan(_, _, _, _)
KeywordScan(meta, terms, f, i) ==
    IF i > Len(meta) THEN <<>>
    ELSE LET m == meta[i]
             rest == KeywordScan(meta, terms, f, i + 1)
         IN  IF FilteredOut(m, f) THEN rest
             ELSE IF Matches(terms, m) > 0 \/ terms = <<>>
                  THEN <<SearchResult(i, m, KeywordScore(Matches(terms, m)))>> \o rest
                  ELSE rest

\* The results left in the order the scan found them.
SortByConfidence_asScanned(rs) == rs

\* results.sort(key=confidence, reverse=True): stable, equal keys keep their order.
RECURSIVE SortByConfidence(_)
SortByConfidence(rs) ==
    IF rs = <<>> THEN <<>>
    ELSE LET b == CHOOSE i \in 1..Len(rs) :
                      /\ \A j \in 1..Len(rs) : rs[i].confidence >= rs[j].confidence
                      /\ \A j \in 1..(i - 1) : rs[j].confidence < rs[i].confidence
         IN  <<rs[b]>> \o SortByConfidence(SubSeq(rs, 1, b - 1) \o SubSeq(rs, b + 1, Len(rs)))

\* results[:top_k]
Slice(rs, top_k) == IF top_k >= 0 THEN Take(rs, top_k) ELSE Take(rs, Len(rs) + top_k)

keyword_search(meta, terms, top_k, f) ==
    Slice(SortByConfidence(KeywordScan(meta, terms, f, 1)), top_k)

\* The result loop of search_by_intent over the rows the index returned.
RECURSIVE CollectResults(_, _, _, _, _, _)
CollectResults(cands, sc, meta, f, top_k, acc) ==
    IF cands = <<>> THEN acc
    ELSE LET idx == Head(cands)
         IN  IF idx < 1 \/ idx > Len(meta) \/ FilteredOut(meta[idx], f)
             THEN CollectResults(Tail(cands), sc, meta, f, top_k, acc)
             ELSE LET acc2 == Append(acc, SearchResult(idx, meta[idx], sc[idx]))
                  IN  IF Len(acc2) >= top_k THEN acc2
                      ELSE CollectResults(Tail(cands), sc, meta, f, top_k, acc2)

\* k without the factor of three.
FetchCount_topKOnly(top_k, ntotal) == Min2(top_k, ntotal)

\* k = min(top_k * 3, self.index.ntotal)
FetchCount(top_k, ntotal) == Min2(top_k * 3, ntotal)

\* One outcome of a search_by_intent call.
Returned(rs) == [raised |-> FALSE, results |-> rs]

\* search_by_intent() without the two guards for an empty corpus.
search_by_intent_unguarded(fa, vecs, meta, q, top_k, f) ==
    IF ~fa THEN {Returned(keyword_search(meta, q.terms, top_k, f))}
    ELSE { Returned(CollectResults(c, Scores(vecs, q.emb), meta, f, top_k, <<>>)) :
             c \in FaissSearch(vecs, q.emb, FetchCount(top_k, Len(vecs))) }
         \cup (IF FetchCount(top_k, Len(vecs)) = 0
               THEN {[raised |-> TRUE, results |-> <<>>]} ELSE {})

\* search_by_intent(): the set of outcomes of the call (one outcome, except
\* where the library leaves something open: the order of equal scores, and
\* k = 0, which faiss answers with no row or rejects, depending on its version).
search_by_intent(fa, vecs, meta, q, top_k, f) ==
    IF meta = <<>> THEN {Returned(<<>>)}
    ELSE IF ~(Len(vecs) > 0 \/ (~fa /\ meta # <<>>)) THEN {Returned(<<>>)}
    ELSE IF ~fa THEN {Returned(keyword_search(meta, q.terms, top_k, f))}
    ELSE { Returned(CollectResults(c, Scores(vecs, q.emb), meta, f, top_k, <<>>)) :
             c \in FaissSearch(vecs, q.emb, FetchCount(top_k, Len(vecs))) }
         \cup (IF FetchCount(top_k, Len(vecs)) = 0
               THEN {[raised |-> TRUE, results |-> <<>>]} ELSE {})

-----------------------------------------------------------------------------
(* Inputs of the search service. *)

\* A query: its lower-cased terms and the embedding embed_query gives it.
Queries ==
    { [terms |-> <<>>,      emb |-> <<10, 0>>],
      [terms |-> <<"sad">>, emb |-> <<8, 6>>] }

TopKs == 0..MaxTopK

FilterSet ==
    { NoFilters,
      [has_take |-> TRUE,  take_id |-> 2, has_emotion |-> FALSE, emotion |-> ""],
      [has_take |-> TRUE,  take_id |-> 0, has_emotion |-> FALSE, emotion |-> ""],
      [has_take |-> FALSE, take_id |-> 0, has_emotion |-> TRUE,  emotion |-> "joy"] }

MomentRecord(take_id, transcript, emotion, file_name, pattern, laughter) ==
    [moment_id |-> take_id * 1000, take_id |-> take_id, transcript |-> transcript,
     emotion_label |-> emotion, file_name |-> file_name, pattern |-> pattern,
     laughter |-> laughter]

\* Arguments of index_moment calls: the embedding (unit length, not yet
\* normalised, or of a foreign width) and the record's fields.
MomentInputs ==
    { [emb |-> <<10, 0>>,
       rec |-> MomentRecord(1, {"great", "job"}, "joy", {"take", "final"}, "normal", TRUE)],
      [emb |-> <<6, 8>>,
       rec |-> MomentRecord(2, {"sadness", "first"}, "sadness", {"sad", "scene"}, "hesitant", FALSE)],
      [emb |-> <<0, 20>>,
       rec |-> MomentRecord(1, {}, "sadness", {"take", "final"}, "normal", FALSE)],
      [emb |-> <<10>>,
       rec |-> MomentRecord(2, {"police", "report"}, "joy", {"sad", "scene"}, "normal", FALSE)] }

\* self.abbreviations of the query expansion service: the entry for "fir",
\* every expansion as the sequence of its words.
abbreviations ==
    [fir |-> { <<"first", "information", "report">>, <<"first", "incident", "report">>,
               <<"police", "report">>, <<"complaint">> }]

\* self.synonym_groups: the group of "report".
synonym_groups ==
    { { <<"report">>, <<"document">>, <<"file">>, <<"record">>, <<"documentation">> } }

\* self._synonym_map.get(word): the groups the word is in, united.
SynonymsOf(word) == UNION {g \in synonym_groups : <<word>> \in g}

\* self._abbr_expanded.get(word): an abbreviation maps to its expansions and
\* itself, a one-word expansion to its abbreviations and itself.
AbbrExpanded(word) ==
    (IF word \in DOMAIN abbreviations THEN abbreviations[word] \cup {<<word>>} ELSE {})
    \cup UNION {{<<a>>, <<word>>} : a \in {b \in DOMAIN abbreviations : <<word>> \in abbreviations[b]}}

\* expansion.lower() in query_lower: the words of the phrase follow one
\* another in the query.
PhraseIn(phrase, words) ==
    \E i \in 0..(Len(words) - Len(phrase)) :
        \A j \in 1..Len(phrase) : words[i + j] = phrase[j]

\* expand_query(query)["all_search_terms"] for the words of a query: the
\* words, what the two maps hold for each word, and every expansion that
\* occurs in the query as a phrase, with its abbreviation.
expand_query(words) ==
    {<<words[i]>> : i \in 1..Len(words)}
        \cup UNION {AbbrExpanded(words[i]) \cup SynonymsOf(words[i]) : i \in 1..Len(words)}
        \cup UNION {{<<a>>, ph} : <<a, ph>> \in
                        {x \in UNION {{<<b, e>> : e \in abbreviations[b]} : b \in DOMAIN abbreviations} :
                            PhraseIn(x[2], words)}}

\* The query "FIR", lower-cased and split, with its embedding.
AbbreviationQueries == { [terms |-> <<"fir">>, emb |-> <<6, 8>>] }

\* Moments whose dialogue is a police report, "fir" in none of their fields.
ReportMoments ==
    { [emb |-> <<8, 6>>,
       rec |-> MomentRecord(2, {"police", "report"}, "neutral", {"clip"}, "normal", FALSE)] }

\* The vector the seeded generator of the "mock" model draws for a text:
\* of unit length, fixed by the hash of the text, unrelated to its meaning.
MockVector(emb) == <<emb[2], emb[1]>>

\* embed_query(query): the model's encoding, or the generator's vector.
embed_query(sm, q) == IF sm THEN q.emb ELSE MockVector(q.emb)

\* The query as search_by_intent works on it: its terms and its embedding.
Embedded(sm, q) == [q EXCEPT !.emb = embed_query(sm, q)]

NoReply == [kind |-> "none"]

\* What a search_by_intent call read and returned.
SearchReply(q, top_k, f, out) ==
    [kind |-> "search", query |-> q, top_k |-> top_k, filters |-> f,
     ntotal |-> Len(vectors), nmeta |-> Len(metadata),
     raised |-> out.raised, results |-> out.results]

-----------------------------------------------------------------------------
(* ProcessingOrchestrator *)

ExistingTakes == {1, 2}          \* rows of the takes table
TakeIds       == {1, 2, 3}       \* identifiers callers may pass (3 has no row)
Runs          == {"a", "b"}      \* process_take coroutines that may be in flight

\* self.stages, in list order.
StageName ==
    <<"Frame & Data Analysis", "Audio Processing", "Script Alignment",
      "Intelligence Scoring", "Intent Indexing">>

NumStages == Len(StageName)

\* The stage weights 2.0, 2.0, 1.0, 0.5, 0.5, doubled.
StageWeight == <<4, 4, 2, 1, 1>>

\* total_weight = sum(s.weight for s in self.stages)
TotalWeight == SumSeq(StageWeight)

\* The percentage rounded to the nearest integer, as round() would give it.
ProgressPercent_rounded(current_weight) ==
    (current_weight * 200 + TotalWeight) \div (2 * TotalWeight)

\* int((current_weight / total_weight) * 100): int() drops the fraction.
ProgressPercent(current_weight) == (current_weight * 100) \div TotalWeight

\* The stages whose function awaits an analyzer; Intelligence Scoring does not.
Awaits(s) == s \in {1, 2, 3, 5}

\* The dict process_take installs in self._progress.
InitProgress ==
    [status |-> "processing", progress |-> 0, current_stage |-> "None",
     stages |-> [i \in 1..NumStages |-> "pending"], logs |-> <<>>]

Unknown == [status |-> "unknown", progress |-> 0]

\* get_status that answers with the sentinel for a take that failed.
get_status_hidesErrors(p, take_id) ==
    IF take_id \in DOMAIN p /\ p[take_id].status # "error" THEN p[take_id] ELSE Unknown

\* get_status(take_id)
get_status(p, take_id) == IF take_id \in DOMAIN p THEN p[take_id] ELSE Unknown

\* A store that keeps one record for all takes: the write reaches every key.
SetProgress_oneRecord(p, take_id, rec) == [x \in (DOMAIN p) \cup {take_id} |-> rec]

\* self._progress[take_id] = rec
SetProgress(p, take_id, rec) ==
    [x \in (DOMAIN p) \cup {take_id} |-> IF x = take_id THEN rec ELSE p[x]]

AppendLogs(rec, lines) == [rec EXCEPT !.logs = @ \o lines]

ErrorLine == "ERROR: stage raised"

IndexingErrorLine == "ERROR: Intent indexing failed"

IdleRun ==
    [pc |-> "idle", take |-> 0, stage |-> 0, current_weight |-> 0,
     transcript |-> "", context |-> {}, meta |-> {}, reasoning |-> {}]

NoRow == [meta |-> {}, reasoning |-> {}]

NoHist == [started |-> FALSE, overlap |-> FALSE, raised |-> 0]

\* take.file_name of the rows.
FileName(t) == IF t = 1 THEN {"take", "final"} ELSE {"sad", "scene"}

\* Transcripts the audio analyzer may return: none, or some dialogue.
Transcripts == {"", "great job"}

TranscriptWords(tr) == IF tr = "" THEN {} ELSE {"great", "job"}

\* Embeddings generate_moment_embedding may hand to index_moment.
EmbeddingOutputs == {<<6, 8>>, <<10>>}

\* The label the weighted vote of lines 187-255 gives the two rows for calm,
\* simple footage without laughter or hesitation: the 0.3 + 0.3 of the audio
\* and visual "neutral" votes win for take 1, the "sad" of its file name
\* (2.5 * 0.4 + 0.2 + 0.3) wins for take 2.
FusedLabel(t) == IF t = 1 THEN "neutral" ELSE "sadness"

\* align_script(): the mock result without a language model, the
\* "incomplete data" result for an empty transcript; the alignment path
\* builds its reasoning and falls off the end of the function.
align_script(sp, transcript) ==
    IF ~sp THEN "mock"
    ELSE IF transcript = "" THEN "incomplete"
    ELSE "None"

\* The loop header `for stage in self.stages`: the stage after s.
NextStage(s) == s + 1

\* The tail of the loop body without the "completed" mark.
MarkCompleted_progressOnly(rec, s, current_weight) ==
    [rec EXCEPT !.progress = ProgressPercent(current_weight)]

\* The tail of the loop body (lines 77-93): the stage is marked completed,
\* the weight added, the percentage stored.
MarkCompleted(rec, s, current_weight) ==
    [rec EXCEPT !.stages[s] = "completed",
                !.progress = ProgressPercent(current_weight)]

\* The head of the loop body (lines 62-64).
MarkRunning(rec, s) ==
    AppendLogs([rec EXCEPT !.current_stage = StageName[s], !.stages[s] = "running"],
               <<"Starting " \o StageName[s] \o "...">>)

\* The except clause that logs the error and leaves the status as it is.
MarkError_logOnly(rec) == AppendLogs(rec, <<ErrorLine>>)

\* The except clause of process_take (lines 99-102).
MarkError(rec) == AppendLogs([rec EXCEPT !.status = "error"], <<ErrorLine>>)

\* Lines 95-97.
MarkDone(rec) ==
    [rec EXCEPT !.status = "completed", !.progress = 100, !.current_stage = "None"]

\* Metadata keys the indexing stage stores before it commits (lines 259-277).
EmotionKeys ==
    {"emotion", "emotion_confidence", "detected_emotions", "vocal_cues", "pacing_signature"}

\* take.ai_reasoning as the indexing stage assigns it (lines 304-309).
DirectorKeys == {"summary", "director_notes", "pillars", "critiques"}

\* db.commit(): the session's Take object becomes the row.
Commit(d, r) == [d EXCEPT ![r.take] = [meta |-> r.meta, reasoning |-> r.reasoning]]

InFlight(t) == {o \in Runs : run[o].pc # "idle" /\ run[o].take = t}

\* The run's locals once stage s has returned: lines 77-90.
Completed(r, s) ==
    [r EXCEPT !.pc = "loop", !.stage = NextStage(s),
              !.current_weight = @ + StageWeight[s]]

\* The run's locals once process_take has returned.
Ended(r) == [IdleRun EXCEPT !.take = r.take]

-----------------------------------------------------------------------------
(* Actions of the orchestrator.  A coroutine runs from one suspension point *)
(* (an awaited analyzer call) to the next without interruption: `active`   *)
(* names the coroutine that holds the event loop.                          *)

\* The slot a new coroutine takes: slots are interchangeable, so an idle one
\* is picked once rather than each in turn.
FreeSlot == CHOOSE r \in Runs : run[r].pc = "idle"

\* process_take(t), lines 37-59, up to the first loop iteration.
Start(r, t) ==
    /\ active = "none"
    /\ run[r].pc = "idle"
    /\ r = FreeSlot
    /\ starts < MaxStarts
    /\ starts' = starts + 1
    /\ openSessions' = openSessions + 1
    /\ hist' = [hist EXCEPT ![t] =
                  [started |-> TRUE, overlap |-> InFlight(t) # {}, raised |-> 0]]
    /\ IF t \in ExistingTakes
       THEN /\ progress' = SetProgress(progress, t, InitProgress)
            /\ run' = [run EXCEPT ![r] =
                         [IdleRun EXCEPT !.pc = "loop", !.take = t, !.stage = 1,
                                         !.meta = db[t].meta,
                                         !.reasoning = db[t].reasoning]]
            /\ active' = r
       ELSE /\ progress' = SetProgress(progress, t, [InitProgress EXCEPT !.status = "error"])
            /\ run' = [run EXCEPT ![r] = [IdleRun EXCEPT !.take = t]]
            /\ active' = "none"
    /\ reply' = NoReply
    /\ UNCHANGED <<faiss, sentence_model, hashseed, vectors, metadata, disk, atSave, fresh, origin, spacy, db>>

\* Lines 171-181: what _run_intent_indexing logs before it awaits analyze_emotion.
IndexingIntro ==
    <<"Starting Intent Indexing for Take...",
      "Building multimodal context description...",
      "Initiating Multi-Modal Emotion Inference...">>

\* Lines 61-74: the stage is marked running and its function is called.
StageBegin(r) ==
    LET s == run[r].stage
        t == run[r].take
    IN  /\ active = r
        /\ run[r].pc = "loop"
        /\ s <= NumStages
        /\ progress' = SetProgress(progress, t,
               AppendLogs(MarkRunning(progress[t], s),
                          IF s = NumStages THEN IndexingIntro ELSE <<>>))
        /\ run' = [run EXCEPT ![r].pc = IF Awaits(s) THEN "await" ELSE "call"]
        /\ active' = IF Awaits(s) THEN "none" ELSE r
        /\ reply' = NoReply
        /\ UNCHANGED <<faiss, sentence_model, hashseed, vectors, metadata, disk, atSave, fresh, origin, spacy, db,
                       starts, openSessions, hist>>

\* Lines 99-104: the exception leaves the loop.
Fail(r, s) ==
    LET t == run[r].take
    IN  /\ progress' = SetProgress(progress, t, MarkError(progress[t]))
        /\ hist' = [hist EXCEPT ![t].raised = s]
        /\ run' = [run EXCEPT ![r] = Ended(run[r])]
        /\ openSessions' = openSessions - 1
        /\ active' = "none"
        /\ reply' = NoReply
        /\ UNCHANGED <<faiss, sentence_model, hashseed, vectors, metadata, disk, atSave, fresh, origin, spacy, db, starts>>

\* Lines 77-93 for a stage whose function returned: `nr` are the run's locals
\* with the stage's writes to the Take object, `lines` what the stage logged.
Succeed(r, s, nr, lines) ==
    LET t  == run[r].take
        r2 == Completed(nr, s)
    IN  /\ progress' = SetProgress(progress, t,
               MarkCompleted(AppendLogs(progress[t], lines), s, r2.current_weight))
        /\ run' = [run EXCEPT ![r] = r2]
        /\ db' = Commit(db, r2)
        /\ active' = r
        /\ reply' = NoReply
        /\ UNCHANGED <<faiss, sentence_model, hashseed, spacy, starts, openSessions, fresh, origin>>

\* _run_cv_analysis / _run_audio_analysis after the analyzer returned.
AnalysisReturn(r, key, transcript) ==
    /\ Succeed(r, run[r].stage,
               [run[r] EXCEPT !.meta = @ \cup {key}, !.reasoning = @ \cup {key},
                              !.context = @ \cup {key}, !.transcript = transcript],
               <<>>)
    /\ UNCHANGED <<vectors, metadata, disk, atSave, hist>>

\* _run_nlp_alignment after align_script returned: a result without a
\* "reasoning" entry raises at line 139, after take.ai_metadata was assigned.
AlignmentReturn(r) ==
    IF align_script(spacy, run[r].transcript) = "None"
    THEN Fail(r, run[r].stage)
    ELSE /\ Succeed(r, run[r].stage,
                    [run[r] EXCEPT !.meta = @ \cup {"nlp"}, !.reasoning = @ \cup {"nlp"},
                                   !.context = @ \cup {"nlp"}],
                    <<>>)
         /\ UNCHANGED <<vectors, metadata, disk, atSave, hist>>

\* Lines 257-337 of _run_intent_indexing: what it logs up to the index call.
IndexingLogs ==
    <<"Inference Engine Results",
      "Synthesizing Director's Reshoot Analysis...",
      "Reshoot Analysis complete.",
      "Detected primary intent",
      "Generating semantic embedding vectors...",
      "Moment embedding generated successfully.",
      "Adding moment to FAISS similarity index...">>

SavingLine == "Saving FAISS index to persistent storage..."

IndexedLine == "Intent indexing and search integration complete!"

\* _run_intent_indexing after analyze_emotion returned (lines 194-367): the
\* emotion keys and the director's reasoning are stored and committed, the
\* moment is added, the index saved.  An exception of index_moment or of
\* save_index is caught at line 363: the stage logs it and returns normally.
IndexingReturn(r, embedding, saveOk) ==
    LET t   == run[r].take
        nr  == [run[r] EXCEPT !.meta = @ \cup EmotionKeys, !.reasoning = DirectorKeys]
        rec == MomentRecord(t, TranscriptWords(run[r].transcript), FusedLabel(t),
                            FileName(t), "normal", FALSE)
        im  == index_moment(vectors, metadata, embedding, rec)
    IN  /\ vectors' = im.vectors
        /\ metadata' = im.metadata
        /\ IF ~im.raised /\ saveOk
           THEN /\ disk' = SaveIndex(faiss, disk, im.vectors, im.metadata)
                /\ atSave' = [vectors |-> im.vectors, metadata |-> im.metadata]
                /\ hist' = hist
           ELSE /\ UNCHANGED <<disk, atSave>>
                /\ hist' = [hist EXCEPT ![t].raised = NumStages]
        /\ Succeed(r, run[r].stage, nr,
                   IndexingLogs \o
                   (IF im.raised THEN <<IndexingErrorLine>>
                    ELSE IF ~saveOk THEN <<SavingLine, IndexingErrorLine>>
                    ELSE <<SavingLine, IndexedLine>>))

\* analyze_emotion raised: caught at line 363 too.
IndexingRaise(r) ==
    /\ hist' = [hist EXCEPT ![run[r].take].raised = NumStages]
    /\ Succeed(r, run[r].stage, run[r], <<IndexingErrorLine>>)
    /\ UNCHANGED <<vectors, metadata, disk, atSave>>

\* The awaited analyzer call of the running stage returns.
AnalyzerReturn(r) ==
    /\ active = "none"
    /\ run[r].pc = "await"
    /\ \/ /\ run[r].stage = 1
          /\ AnalysisReturn(r, "cv", run[r].transcript)
       \/ /\ run[r].stage = 2
          /\ \E tr \in Transcripts : AnalysisReturn(r, "audio", tr)
       \/ /\ run[r].stage = 3
          /\ AlignmentReturn(r)
       \/ /\ run[r].stage = NumStages
          /\ \E e \in EmbeddingOutputs, saveOk \in BOOLEAN :
                 IndexingReturn(r, e, saveOk)

\* The awaited analyzer call of the running stage raises.
AnalyzerRaise(r) ==
    /\ active = "none"
    /\ run[r].pc = "await"
    /\ \/ /\ run[r].stage < NumStages
          /\ Fail(r, run[r].stage)
       \/ /\ run[r].stage = NumStages
          /\ IndexingRaise(r)

\* _run_scoring (lines 144-167): no suspension point.
ScoringCall(r) ==
    /\ active = r
    /\ run[r].pc = "call"
    /\ Succeed(r, run[r].stage,
               [run[r] EXCEPT !.meta = @ \cup {"score_breakdown"},
                              !.reasoning = @ \cup {"summary"}],
               <<>>)
    /\ UNCHANGED <<vectors, metadata, disk, atSave, hist>>

\* Lines 95-97 and 104: the loop is over.
Finish(r) ==
    LET t == run[r].take
    IN  /\ active = r
        /\ run[r].pc = "loop"
        /\ run[r].stage > NumStages
        /\ progress' = SetProgress(progress, t, MarkDone(progress[t]))
        /\ run' = [run EXCEPT ![r] = Ended(run[r])]
        /\ openSessions' = openSessions - 1
        /\ active' = "none"
        /\ reply' = NoReply
        /\ UNCHANGED <<faiss, sentence_model, hashseed, vectors, metadata, disk, atSave, fresh, origin, spacy, db,
                       starts, hist>>

\* get_status(t), called between two steps of the event loop.
GetStatus(t) ==
    /\ active = "none"
    /\ reply' = [kind |-> "status", take_id |-> t, state |-> get_status(progress, t)]
    /\ UNCHANGED <<faiss, sentence_model, hashseed, vectors, metadata, disk, atSave, fresh, origin>>
    /\ UNCHANGED orchVars

\* search_by_intent(q, top_k, f), called between two steps of the event loop
\* (a reply is read before the next search is sent).
Search(q, top_k, f) ==
    /\ active = "none"
    /\ reply.kind # "search"
    /\ \E out \in search_by_intent(faiss, vectors, metadata,
                                    Embedded(sentence_model, q), top_k, f) :
           reply' = SearchReply(Embedded(sentence_model, q), top_k, f, out)
    /\ UNCHANGED <<faiss, sentence_model, hashseed, vectors, metadata, disk, atSave, fresh, origin>>
    /\ UNCHANGED orchVars

-----------------------------------------------------------------------------
(* Actions of the search service on its own. *)

\* index_moment(...) with arbitrary arguments.
IdxAdd(mi) ==
    LET im == index_moment(vectors, metadata, mi.emb, mi.rec)
    IN  /\ Len(metadata) < MaxMoments
        /\ vectors' = im.vectors
        /\ metadata' = im.metadata
        /\ fresh' = FALSE
        /\ reply' = [kind |-> "add", raised |-> im.raised]
        /\ UNCHANGED <<faiss, sentence_model, hashseed, disk, atSave, origin>>
        /\ UNCHANGED orchVars

\* save_index()
IdxSave ==
    /\ disk' = SaveIndex(faiss, disk, vectors, metadata)
    /\ atSave' = [vectors |-> vectors, metadata |-> metadata]
    /\ reply' = NoReply
    /\ UNCHANGED <<faiss, sentence_model, hashseed, vectors, metadata, fresh, origin>>
    /\ UNCHANGED orchVars

\* A fresh SemanticSearchService() over the same storage directory.
IdxRestart ==
    /\ vectors' = LoadOrCreateIndex(faiss, disk).vectors
    /\ metadata' = LoadOrCreateIndex(faiss, disk).metadata
    /\ fresh' = TRUE
    /\ origin' = IF disk.hasMeta THEN "loaded" ELSE "created"
    /\ reply' = NoReply
    /\ UNCHANGED <<faiss, sentence_model, hashseed, disk, atSave>>
    /\ UNCHANGED orchVars

\* clear_index(): a new index, saved at once.
IdxClear ==
    /\ vectors' = CreateNewIndex.vectors
    /\ metadata' = CreateNewIndex.metadata
    /\ disk' = SaveIndex(faiss, disk, CreateNewIndex.vectors, CreateNewIndex.metadata)
    /\ atSave' = CreateNewIndex
    /\ fresh' = FALSE
    /\ origin' = "created"
    /\ reply' = NoReply
    /\ UNCHANGED <<faiss, sentence_model, hashseed>>
    /\ UNCHANGED orchVars

-----------------------------------------------------------------------------
(* Specifications. *)

\* The service and the orchestrator after construction on an empty storage
\* directory, with or without FAISS and with or without a spaCy model.
Init ==
    /\ faiss \in BOOLEAN
    /\ sentence_model = TRUE
    /\ hashseed = 0
    /\ spacy \in BOOLEAN
    /\ vectors = CreateNewIndex.vectors
    /\ metadata = CreateNewIndex.metadata
    /\ disk = NoDisk
    /\ atSave = CreateNewIndex
    /\ fresh = FALSE
    /\ origin = "created"
    /\ reply = NoReply
    /\ progress = <<>>
    /\ run = [r \in Runs |-> IdleRun]
    /\ active = "none"
    /\ db = [t \in ExistingTakes |-> NoRow]
    /\ starts = 0
    /\ openSessions = 0
    /\ hist = [t \in TakeIds |-> NoHist]

\* The steps of the process_take coroutines.
RunStep(r) ==
    \/ StageBegin(r)
    \/ AnalyzerReturn(r)
    \/ AnalyzerRaise(r)
    \/ ScoringCall(r)
    \/ Finish(r)

\* The query a caller polls with while takes are processed.
PollQuery == [terms |-> <<>>, emb |-> <<10, 0>>]

\* process_take calls and their steps.
NextRuns ==
    \/ \E r \in Runs, t \in TakeIds : Start(r, t)
    \/ \E r \in Runs : RunStep(r)

Next ==
    \/ NextRuns
    \/ \E t \in TakeIds : GetStatus(t)
    \/ Search(PollQuery, MaxTopK, NoFilters)

\* The orchestrator with takes processed interleaved, polled and searched.
Spec == Init /\ [][Next]_vars

\* The runs alone, where every analyzer call returns or raises and the event
\* loop resumes every coroutine that is ready.
FairSpec == Init /\ [][NextRuns]_vars /\ \A r \in Runs : WF_vars(RunStep(r))

InitIndex == Init /\ ~spacy

NextIndex ==
    \/ \E mi \in MomentInputs : IdxAdd(mi)
    \/ IdxSave
    \/ IdxRestart
    \/ IdxClear
    \/ \E q \in Queries, k \in TopKs, f \in FilterSet : Search(q, k, f)

\* The search service driven directly.
SpecIndex == InitIndex /\ [][NextIndex]_vars

\* The search service after construction, with or without FAISS and with or
\* without a sentence-transformers model.
InitEmbed ==
    /\ faiss \in BOOLEAN
    /\ sentence_model \in BOOLEAN
    /\ hashseed = 0
    /\ spacy = FALSE
    /\ vectors = CreateNewIndex.vectors
    /\ metadata = CreateNewIndex.metadata
    /\ disk = NoDisk
    /\ atSave = CreateNewIndex
    /\ fresh = FALSE
    /\ origin = "created"
    /\ reply = NoReply
    /\ progress = <<>>
    /\ run = [r \in Runs |-> IdleRun]
    /\ active = "none"
    /\ db = [t \in ExistingTakes |-> NoRow]
    /\ starts = 0
    /\ openSessions = 0
    /\ hist = [t \in TakeIds |-> NoHist]

NextEmbed ==
    \/ \E mi \in MomentInputs \cup ReportMoments : IdxAdd(mi)
    \/ \E q \in Queries \cup AbbreviationQueries, k \in TopKs : Search(q, k, NoFilters)

\* Moments added and searched for in each of the four installations.
SpecEmbed == InitEmbed /\ [][NextEmbed]_vars

-----------------------------------------------------------------------------
(* Multi-modal emotion inference of _run_intent_indexing.                  *)
(*                                                                         *)
(* Keyword scores are counted in halves (0.5 is 1, the filename hint 2.5   *)
(* is 5).  A vote weight w is kept as 2 * (10 * w) plus FloatExcess, so    *)
(* that two weights compare as the binary64 values the code compares.      *)

\* The keys of emotion_map in analyze_emotion, in dict order.
EmotionOrder ==
    <<"joy", "sadness", "anger", "fear", "disgust", "surprise", "analytical", "thoughtful">>

\* The keys of emotion_weights in _run_intent_indexing, in dict order.
WeightOrder ==
    <<"joy", "sadness", "anger", "fear", "disgust", "surprise", "neutral",
      "analytical", "thoughtful">>

\* Words a transcript is made of, in a fixed order; "okay" is a keyword of
\* no category, each other word a keyword of one.
SpokenWords == <<"happy", "cry", "data", "okay">>

\* The categories of emotion_map whose "keywords" list holds the word.
KeywordOf(word) ==
    CASE word = "happy"  -> {"joy"}
      [] word = "cry"    -> {"sadness"}
      [] word = "angry"  -> {"anger"}
      [] word = "scared" -> {"fear"}
      [] word = "gross"  -> {"disgust"}
      [] word = "whoa"   -> {"surprise"}
      [] word = "data"   -> {"analytical"}
      [] word = "hmm"    -> {"thoughtful"}
      [] OTHER           -> {}

\* The keywords of emotion_map that transcripts of the model may hold, one
\* of each category, in dict order.
KeywordList == <<"happy", "cry", "angry", "scared", "gross", "whoa", "data", "hmm">>

\* The categories whose "filename_hints" list holds the word.
FilenameHintOf(word) ==
    CASE word = "sad"    -> {"sadness"}
      [] word = "screen" -> {"analytical"}
      [] OTHER           -> {}

\* all_text.count(kw)
Count(word, transcript) == Cardinality({i \in 1..Len(transcript) : transcript[i] = word})

\* "screen" in fname or "recording" in fname or "capture" in fname
ScreenRecording(file) == file.words \cap {"screen", "recording", "capture"} # {}

\* scores[emotion] of analyze_emotion for no description and no detected
\* objects: min(count * 0.5, 3.0) per keyword, 2.5 per filename hint, 4.0
\* for a screen recording.
EmotionScore(e, transcript, file) ==
    SumSeq([i \in 1..Len(KeywordList) |->
               IF e \in KeywordOf(KeywordList[i])
               THEN Min2(Count(KeywordList[i], transcript), 6) ELSE 0])
    + 5 * Cardinality({h \in file.words : e \in FilenameHintOf(h)})
    + (IF e = "analytical" /\ ScreenRecording(file) THEN 8 ELSE 0)

\* max(d, key=d.get) of a dict whose keys are listed in order: the first
\* key with the largest value.
FirstMax(order, d) ==
    order[CHOOSE i \in 1..Len(order) :
              /\ \A j \in 1..Len(order) : d[order[j]] <= d[order[i]]
              /\ \A j \in 1..(i - 1) : d[order[j]] < d[order[i]]]

\* variety_pool of analyze_emotion and the label it yields for a name hash:
\* "neutral" is replaced by "thoughtful".
NlpVarietyPool == <<"thoughtful", "analytical", "neutral">>

NlpFallback(file) ==
    LET fallback == NlpVarietyPool[(file.name_hash % Len(NlpVarietyPool)) + 1]
    IN  IF fallback # "neutral" THEN fallback ELSE "thoughtful"

\* detected_emotions of lines 187-206: the categories in descending order
\* of score (sorted() is stable, ties stay in dict order), of which those
\* are kept whose share round(s / total_score, 3) is at least 0.15, that is
\* s / total_score >= 0.1495; none when the total is zero.
DetectedEmotions(scores) ==
    LET n        == Len(EmotionOrder)
        total    == SumSeq([i \in 1..n |-> scores[EmotionOrder[i]]])
        rank(i)  == 1 + Cardinality({j \in 1..n :
                          \/ scores[EmotionOrder[j]] > scores[EmotionOrder[i]]
                          \/ scores[EmotionOrder[j]] = scores[EmotionOrder[i]] /\ j < i})
        sorted   == [k \in 1..n |-> EmotionOrder[CHOOSE i \in 1..n : rank(i) = k]]
        listed(e) == total > 0 /\ 2000 * scores[e] >= 299 * total
    IN  SelectSeq(sorted, listed)

\* analyze_emotion(transcript, filename): the dominant emotion, the scores
\* and the detected emotions; the filename fallback when no emotion is
\* detected and every score is zero.
analyze_emotion(transcript, file) ==
    LET sc(e) == EmotionScore(e, transcript, file)
        scores == [joy |-> sc("joy"), sadness |-> sc("sadness"), anger |-> sc("anger"),
                   fear |-> sc("fear"), disgust |-> sc("disgust"),
                   surprise |-> sc("surprise"), analytical |-> sc("analytical"),
                   thoughtful |-> sc("thoughtful")]
        dominant_emotion == FirstMax(EmotionOrder, scores)
        detected_emotions == DetectedEmotions(scores)
    IN  IF detected_emotions = <<>> /\ scores[dominant_emotion] = 0
        THEN [emotion |-> NlpFallback(file), scores |-> scores,
              detected_emotions |-> <<NlpFallback(file)>>]
        ELSE [emotion |-> dominant_emotion, scores |-> scores,
              detected_emotions |-> detected_emotions]

\* audio_emotion: laughter, else a hesitation above 1.2 s (in tenths).
AudioEmotion(audio) ==
    IF audio.laughter_detected THEN "joy"
    ELSE IF audio.hesitation_duration > 12 THEN "thoughtful"
    ELSE "neutral"

\* visual_emotion: energy and complexity of the footage, overridden by the
\* file name.
VisualEmotion(cv, file) ==
    LET has(ws) == file.words \cap ws # {}
    IN  IF has({"screen", "recording", "capture"}) THEN "analytical"
        ELSE IF has({"funny", "comedy", "laugh"}) THEN "joy"
        ELSE IF has({"sad", "emotional", "drama"}) THEN "sadness"
        ELSE IF has({"action", "tense", "fight"}) THEN "anger"
        ELSE IF has({"horror", "scary", "dark"}) THEN "fear"
        ELSE IF cv.energy_level = "high-intensity"
             THEN (IF cv.complexity = "intricate" THEN "surprise" ELSE "anger")
        ELSE IF cv.energy_level = "dynamic" THEN "joy"
        ELSE IF cv.complexity = "intricate" THEN "thoughtful"
        ELSE "neutral"

\* What binary64 adds to 0.0 + s * 0.4 (+ 0.2) (+ 0.3) (+ 0.3) over the
\* exact sum, for a score of s2 halves up to 12: the sum is the double just
\* above the one other routes to the same decimal value reach (0.4 + 0.2 is
\* 0.6000000000000001, 0.3 + 0.3 is 0.6).
FloatExcess(s2, bonus, votes) ==
    IF \/ s2 = 2 /\ bonus = 1 /\ votes \in {0, 2}
       \/ s2 = 3 /\ bonus = 0 /\ votes \in {0, 2}
       \/ s2 = 6 /\ bonus = 0
       \/ s2 = 11 /\ bonus = 1 /\ votes = 0
       \/ s2 = 12 /\ votes = 0
    THEN 1 ELSE 0

\* emotion_weights after the weighted voting: 0.4 of the score, 0.2 for the
\* winner of analyze_emotion, 0.3 for the audio and 0.3 for the visual vote.
EmotionWeights(nlp_res, audio_emotion, visual_emotion) ==
    [e \in {WeightOrder[i] : i \in 1..Len(WeightOrder)} |->
        LET s2    == IF e \in DOMAIN nlp_res.scores THEN nlp_res.scores[e] ELSE 0
            bonus == IF nlp_res.emotion = e THEN 1 ELSE 0
            votes == (IF audio_emotion = e THEN 1 ELSE 0)
                     + (IF visual_emotion = e THEN 1 ELSE 0)
        IN  2 * (2 * s2 + 2 * bonus + 3 * votes) + FloatExcess(s2, bonus, votes)]

\* The fallback condition that holds whenever no vote is above 0.6.
AllWeightsZero_noStrongVote(w) == \A e \in DOMAIN w : w[e] <= 12

\* sum(emotion_weights.values()) == 0
AllWeightsZero(w) == \A e \in DOMAIN w : w[e] = 0

\* variety_pool of _run_intent_indexing.
VarietyPool == <<"thoughtful", "joy", "analytical", "surprise", "sadness", "anger">>

\* emotion_label of lines 187-255 for one take.
EmotionLabel(take_id, transcript, file, audio, cv) ==
    LET w == EmotionWeights(analyze_emotion(transcript, file),
                            AudioEmotion(audio), VisualEmotion(cv, file))
    IN  IF AllWeightsZero(w)
        THEN VarietyPool[((file.name_hash + take_id) % Len(VarietyPool)) + 1]
        ELSE FirstMax(WeightOrder, w)

\* timing_data["pattern"]
TimingPattern(audio) == IF audio.hesitation_duration > 10 THEN "hesitant" ELSE "normal"

\* _build_intent_description: the dialogue, the emotion and the timing (the
\* audio result has neither "laughter_detected" nor "speech_rate" at its
\* top level, so those parts are never added).
build_intent_description(transcript, emotion_label, pattern) ==
    [dialogue |-> transcript, emotion |-> emotion_label, timing |-> pattern]

\* hash(text) % 2**32 of the process: a number fixed by the salt and the
\* text, of which the low 16 bits are kept here.
RECURSIVE TextCode(_)
TextCode(transcript) ==
    IF transcript = <<>> THEN 0
    ELSE Len(Head(transcript)) + 7 * TextCode(Tail(transcript))

StrHash(salt, description) ==
    (salt * 1000003 + 31 * TextCode(description.dialogue)
       + Len(description.emotion) + Len(description.timing)) % (2 ^ 16)

\* generate_moment_embedding: the vector is named by what determines it,
\* the text the model encodes or the seed the generator is given.
generate_moment_embedding(sm, salt, description) ==
    IF sm THEN <<"encode", description>>
    ELSE <<"randn", StrHash(salt, description)>>

\* What the stage infers and embeds for one take (lines 187-333).
InferTake(take_id, sm, salt, inp) ==
    LET emotion_label == EmotionLabel(take_id, inp.transcript, inp.file, inp.audio, inp.cv)
    IN  [emotion   |-> emotion_label,
         embedding |-> generate_moment_embedding(sm, salt,
                          build_intent_description(inp.transcript, emotion_label,
                                                   TimingPattern(inp.audio)))]

MaxSpoken == 3     \* words of a transcript

\* Transcripts the audio analyzer may return.
SpokenTranscripts ==
    UNION {[1..n -> {SpokenWords[i] : i \in 1..Len(SpokenWords)}] : n \in 0..MaxSpoken}

\* take.file_name: take_final.mp4, clip.mp4 and sad_scene.mp4, with
\* sum(ord(c) for c in name).
TakeFiles ==
    { [words |-> {"take", "final"}, name_hash |-> 1357],
      [words |-> {"clip"},          name_hash |-> 743],
      [words |-> {"sad", "scene"},  name_hash |-> 1252] }

\* behavioral_markers of the audio analyzer (durations in tenths of a second).
AudioResults == [laughter_detected : BOOLEAN, hesitation_duration : {0, 15}]

\* energy_level and complexity of the frame analyzer.
FrameResults ==
    [energy_level : {"calm", "dynamic", "high-intensity"},
     complexity : {"simple", "intricate"}]

InferenceInputs ==
    [transcript : SpokenTranscripts, file : TakeFiles, audio : AudioResults, cv : FrameResults]

\* Two rows of the takes table whose transcript, file name and analyzer
\* results are the same, about to go through the stage.
PendingInferences ==
    [kind : {"pending"}, input : InferenceInputs,
     takes : {<<a, b>> : a \in ExistingTakes, b \in ExistingTakes} \ {<<a, a>> : a \in ExistingTakes}]

\* The stage runs for both rows.
InferTwo ==
    /\ reply.kind = "pending"
    /\ reply' = [kind |-> "inference", input |-> reply.input, takes |-> reply.takes,
                 out |-> <<InferTake(reply.takes[1], sentence_model, hashseed, reply.input),
                           InferTake(reply.takes[2], sentence_model, hashseed, reply.input)>>]
    /\ UNCHANGED <<faiss, sentence_model, hashseed, vectors, metadata, disk, atSave,
                   fresh, origin>>
    /\ UNCHANGED orchVars

HashSeeds == {0, 1}

\* A process with or without the sentence model, with either salt, and the
\* two takes it is about to label.
InitInference ==
    /\ faiss = TRUE
    /\ sentence_model \in BOOLEAN
    /\ hashseed \in HashSeeds
    /\ spacy = FALSE
    /\ vectors = CreateNewIndex.vectors
    /\ metadata = CreateNewIndex.metadata
    /\ disk = NoDisk
    /\ atSave = CreateNewIndex
    /\ fresh = FALSE
    /\ origin = "created"
    /\ reply \in PendingInferences
    /\ progress = <<>>
    /\ run = [r \in Runs |-> IdleRun]
    /\ active = "none"
    /\ db = [t \in ExistingTakes |-> NoRow]
    /\ starts = 0
    /\ openSessions = 0
    /\ hist = [t \in TakeIds |-> NoHist]

NextInference == InferTwo

SpecInference == InitInference /\ [][NextInference]_vars

-----------------------------------------------------------------------------
(* Query expansion on its own. *)

MaxQueryWords == 3     \* words of a query

\* re.findall(r'\b\w+\b', query_lower) of the queries a caller may send.
QueryWordLists == UNION {[1..n -> {"fir", "police", "report"}] : n \in 0..MaxQueryWords}

\* The second list holds the words of the first in another order.
Permuted(ws, vs) ==
    /\ Len(ws) = Len(vs)
    /\ \E f \in [1..Len(ws) -> 1..Len(ws)] :
          /\ \A i, j \in 1..Len(ws) : f[i] = f[j] => i = j
          /\ \A i \in 1..Len(ws) : vs[i] = ws[f[i]]

\* A query and a permutation of it, about to be expanded.
PendingExpansions ==
    {r \in [kind : {"pending"}, query : QueryWordLists, other : QueryWordLists] :
        Permuted(r.query, r.other)}

\* expand_query is called for the query, for its permutation, and for the
\* query again.
ExpandBoth ==
    /\ reply.kind = "pending"
    /\ reply' = [kind |-> "expansion", query |-> reply.query, other |-> reply.other,
                 terms |-> expand_query(reply.query),
                 other_terms |-> expand_query(reply.other),
                 again |-> expand_query(reply.query)]
    /\ UNCHANGED <<faiss, sentence_model, hashseed, vectors, metadata, disk, atSave,
                   fresh, origin>>
    /\ UNCHANGED orchVars

InitExpand ==
    /\ reply \in PendingExpansions
    /\ faiss = TRUE
    /\ sentence_model = TRUE
    /\ hashseed = 0
    /\ spacy = FALSE
    /\ vectors = CreateNewIndex.vectors
    /\ metadata = CreateNewIndex.metadata
    /\ disk = NoDisk
    /\ atSave = CreateNewIndex
    /\ fresh = FALSE
    /\ origin = "created"
    /\ progress = <<>>
    /\ run = [r \in Runs |-> IdleRun]
    /\ active = "none"
    /\ db = [t \in ExistingTakes |-> NoRow]
    /\ starts = 0
    /\ openSessions = 0
    /\ hist = [t \in TakeIds |-> NoHist]

NextExpand == ExpandBoth

SpecExpand == InitExpand /\ [][NextExpand]_vars

-----------------------------------------------------------------------------
(* The AI-monitor endpoints (api/api_v1/endpoints/ai_monitor.py). *)

\* analyze_full without the re-raise of HTTPException: the 404 is caught by
\* the generic handler and answered as 500.
analyze_full_noReraise(rows, take_id, file_exists, analysis_ok) ==
    IF take_id \notin DOMAIN rows THEN [status_code |-> 500, analysed |-> FALSE]
    ELSE IF ~file_exists THEN [status_code |-> 500, analysed |-> FALSE]
    ELSE IF ~analysis_ok THEN [status_code |-> 500, analysed |-> TRUE]
    ELSE [status_code |-> 200, analysed |-> TRUE]

\* analyze_full(take_id): 404 for a take without a row or without its video
\* file (HTTPException is re-raised), otherwise both analyzers run; an
\* exception of theirs is answered as 500.
analyze_full(rows, take_id, file_exists, analysis_ok) ==
    IF take_id \notin DOMAIN rows THEN [status_code |-> 404, analysed |-> FALSE]
    ELSE IF ~file_exists THEN [status_code |-> 404, analysed |-> FALSE]
    ELSE IF ~analysis_ok THEN [status_code |-> 500, analysed |-> TRUE]
    ELSE [status_code |-> 200, analysed |-> TRUE]

\* get_metadata(take_id): 404 for a take without a row, otherwise the
\* metadata with "exists"; no analyzer is called.
get_metadata(rows, take_id, file_exists) ==
    IF take_id \notin DOMAIN rows THEN [status_code |-> 404, analysed |-> FALSE]
    ELSE [status_code |-> 200, analysed |-> FALSE, exists |-> file_exists]

\* get_analysis_status(take_id): 404 for a take without a row, otherwise
\* whether the row has any AI metadata.
get_analysis_status(rows, take_id) ==
    IF take_id \notin DOMAIN rows THEN [status_code |-> 404, analysed |-> FALSE]
    ELSE [status_code |-> 200, analysed |-> FALSE,
          has_analysis |-> rows[take_id].meta # {}]

\* Rows the takes table may hold when an endpoint is called.
MonitorRows ==
    {NoRow, [meta |-> {"cv"}, reasoning |-> {}],
     [meta |-> {"cv", "audio", "nlp", "score_breakdown"}, reasoning |-> {"summary"}]}

\* The answer of an endpoint: the session it opened is closed in `finally`.
Answer(endpoint, take_id, out) ==
    /\ reply' = [kind |-> "http", endpoint |-> endpoint, take_id |-> take_id, out |-> out]
    /\ UNCHANGED <<faiss, sentence_model, hashseed, vectors, metadata, disk, atSave,
                   fresh, origin>>
    /\ UNCHANGED orchVars

PostAnalyzeFull(take_id, file_exists, analysis_ok) ==
    Answer("analyze-full", take_id, analyze_full(db, take_id, file_exists, analysis_ok))

GetMetadata(take_id, file_exists) ==
    Answer("metadata", take_id, get_metadata(db, take_id, file_exists))

GetAnalysisStatus(take_id) ==
    Answer("status", take_id, get_analysis_status(db, take_id))

InitMonitor ==
    /\ db \in [ExistingTakes -> MonitorRows]
    /\ reply = NoReply
    /\ faiss = TRUE
    /\ sentence_model = TRUE
    /\ hashseed = 0
    /\ spacy = FALSE
    /\ vectors = CreateNewIndex.vectors
    /\ metadata = CreateNewIndex.metadata
    /\ disk = NoDisk
    /\ atSave = CreateNewIndex
    /\ fresh = FALSE
    /\ origin = "created"
    /\ progress = <<>>
    /\ run = [r \in Runs |-> IdleRun]
    /\ active = "none"
    /\ starts = 0
    /\ openSessions = 0
    /\ hist = [t \in TakeIds |-> NoHist]

NextMonitor ==
    \/ \E t \in TakeIds, fe \in BOOLEAN, ok \in BOOLEAN : PostAnalyzeFull(t, fe, ok)
    \/ \E t \in TakeIds, fe \in BOOLEAN : GetMetadata(t, fe)
    \/ \E t \in TakeIds : GetAnalysisStatus(t)

SpecMonitor == InitMonitor /\ [][NextMonitor]_vars

-----------------------------------------------------------------------------
(* analyze_emotion on its own. *)

\* Transcripts that hold any of the keywords of KeywordList once.
KeywordTranscripts ==
    {SelectSeq(KeywordList, LAMBDA w : w \in S) :
        S \in SUBSET {KeywordList[i] : i \in 1..Len(KeywordList)}}

\* analyze_emotion is called for the transcript and the file name.
AnalyzeEmotion ==
    /\ reply.kind = "pending"
    /\ reply' = [kind |-> "emotion", transcript |-> reply.transcript, file |-> reply.file,
                 out |-> analyze_emotion(reply.transcript, reply.file)]
    /\ UNCHANGED <<faiss, sentence_model, hashseed, vectors, metadata, disk, atSave,
                   fresh, origin>>
    /\ UNCHANGED orchVars

InitEmotion ==
    /\ reply \in [kind : {"pending"}, transcript : KeywordTranscripts, file : TakeFiles]
    /\ faiss = TRUE
    /\ sentence_model = TRUE
    /\ hashseed = 0
    /\ spacy = FALSE
    /\ vectors = CreateNewIndex.vectors
    /\ metadata = CreateNewIndex.metadata
    /\ disk = NoDisk
    /\ atSave = CreateNewIndex
    /\ fresh = FALSE
    /\ origin = "created"
    /\ progress = <<>>
    /\ run = [r \in Runs |-> IdleRun]
    /\ active = "none"
    /\ db = [t \in ExistingTakes |-> NoRow]
    /\ starts = 0
    /\ openSessions = 0
    /\ hist = [t \in TakeIds |-> NoHist]

NextEmotion == AnalyzeEmotion

SpecEmotion == InitEmotion /\ [][NextEmotion]_vars

-----------------------------------------------------------------------------
(* Claims C1 - C4. *)

\* The ai_metadata key the stage writes (stages 1 to 4).
StageKey == <<"cv", "audio", "nlp", "score_breakdown">>

ErrorLines == {ErrorLine, IndexingErrorLine}

\* The take's run is over and was the only one on it since it started.
Settled(t) == hist[t].started /\ ~hist[t].overlap /\ InFlight(t) = {}

\* C1 (as the specification states it): when a stage of a run raises, in any
\* of the five stages, the take ends with status "error", an ERROR line is in
\* its log, no later stage has left "pending", and what the earlier stages
\* committed is in the row.
C1_StageFailureAborts ==
    \A t \in ExistingTakes :
        (Settled(t) /\ hist[t].raised # 0) =>
            LET p == progress[t]
                s == hist[t].raised
            IN  /\ p.status = "error"
                /\ \E i \in 1..Len(p.logs) : p.logs[i] \in ErrorLines
                /\ \A i \in (s + 1)..NumStages : p.stages[i] = "pending"
                /\ \A i \in 1..(s - 1) : StageKey[i] \in db[t].meta

\* C2: from a newly created index, after any sequence of index_moment calls,
\* failing ones included, the index holds as many rows as there are metadata
\* records.
C2_RowsMatchRecords ==
    origin = "created" => Len(vectors) = Len(metadata)

\* C2 witness: an index_moment call has just raised on a created index that
\* already holds two moments.
C2_FailedAddAfterAdds ==
    /\ origin = "created"
    /\ reply.kind = "add" /\ reply.raised
    /\ Len(metadata) = 2

\* C3: within one run the stages go in list order, at most one is "running",
\* and a stage has left "pending" only when all before it are "completed".
C3_StagesInOrder ==
    \A t \in DOMAIN progress :
        ~hist[t].overlap =>
            LET st == progress[t].stages
            IN  /\ Cardinality({i \in 1..NumStages : st[i] = "running"}) <= 1
                /\ \A i \in 1..NumStages :
                       st[i] # "pending" => \A j \in 1..(i - 1) : st[j] = "completed"

\* C3 witness: a run is in its fourth stage with the first three completed.
C3_FourthStageRunning ==
    \E t \in DOMAIN progress :
        /\ ~hist[t].overlap
        /\ progress[t].stages[4] = "running"
        /\ \A j \in 1..3 : progress[t].stages[j] = "completed"
        /\ progress[t].stages[5] = "pending"

-----------------------------------------------------------------------------
(* Claims C5 - C7. *)

\* The outcomes of the searches the round trip is compared on.
Rankings(vecs, meta) ==
    [q \in Queries |-> search_by_intent(faiss, vecs, meta, q, MaxTopK, NoFilters)]

\* C5 (as the specification states it): a fresh instance that loaded what
\* save_index wrote has as many rows and as many records as the instance
\* that saved, and ranks every query the same, with FAISS and without.
C5_SaveLoadRoundTrip ==
    fresh =>
        /\ Len(vectors) = Len(atSave.vectors)
        /\ Len(metadata) = Len(atSave.metadata)
        /\ Rankings(vectors, metadata) = Rankings(atSave.vectors, atSave.metadata)

\* Twice the weight of the stages marked completed.
CompletedWeight(t) ==
    SumSeq([i \in 1..NumStages |->
               IF progress[t].stages[i] = "completed" THEN StageWeight[i] ELSE 0])

\* C6 (as the specification states it): the progress of a take is the weight
\* of its completed stages over the total weight, as a percentage rounded to
\* the nearest integer.
C6_ProgressRounded ==
    \A t \in DOMAIN progress :
        ~hist[t].overlap =>
            progress[t].progress =
                (CompletedWeight(t) * 200 + TotalWeight) \div (2 * TotalWeight)

\* C6 (amended): the progress of a take is the weight of its completed
\* stages over the total weight, as a percentage with the fraction dropped:
\* 33, 66, 83, 91 and 100 after the five stages.
C6_ProgressTruncated ==
    \A t \in DOMAIN progress :
        ~hist[t].overlap =>
            /\ progress[t].progress = (CompletedWeight(t) * 100) \div TotalWeight
            /\ progress[t].progress \in {0, 33, 66, 83, 91, 100}

\* C6 witness: two stages are completed and the progress is 66, where
\* rounding gives 67.
C6_TwoStagesDone ==
    \E t \in DOMAIN progress :
        /\ ~hist[t].overlap
        /\ CompletedWeight(t) = StageWeight[1] + StageWeight[2]
        /\ progress[t].progress = 66

\* C7: get_status answers with the sentinel exactly for the takes no
\* process_take call was made for, and with the take's progress record
\* otherwise, whose status is one of the four.
C7_StatusSentinel ==
    /\ \A t \in TakeIds :
           /\ get_status(progress, t) = Unknown <=> ~hist[t].started
           /\ hist[t].started =>
                  /\ get_status(progress, t) = progress[t]
                  /\ get_status(progress, t).status \in
                         {"pending", "processing", "completed", "error"}
    /\ reply.kind = "status" =>
           /\ reply.state = get_status(progress, reply.take_id)
           /\ reply.state = Unknown <=> ~hist[reply.take_id].started

\* C7 witness: the sentinel was the answer for one take after another, one
\* without a row, had been started and had failed.
C7_SentinelBesideFailedTake ==
    /\ reply.kind = "status"
    /\ reply.state = Unknown
    /\ \E t \in TakeIds \ ExistingTakes :
           hist[t].started /\ get_status(progress, t).status = "error"
    /\ \E t \in ExistingTakes :
           hist[t].started /\ get_status(progress, t).status = "processing"

-----------------------------------------------------------------------------
(* Claims C8 - C10. *)

Terminal == {"completed", "error"}

\* C8: when every analyzer call returns or raises and the event loop resumes
\* every coroutine that is ready, every process_take run ends, its take then
\* in status "completed" or "error".
C8_RunsTerminate ==
    \A r \in Runs :
        (run[r].pc # "idle") ~>
            (run[r].pc = "idle" /\ get_status(progress, run[r].take).status \in Terminal)

\* C8 witness: a run that failed in one of its first three stages is over,
\* its take in status "error", and another run has started since.
C8_FailedRunOver ==
    \E r \in Runs :
        /\ run[r].pc = "idle"
        /\ run[r].take \in ExistingTakes
        /\ hist[run[r].take].raised \in 1..3
        /\ progress[run[r].take].status = "error"
        /\ \E o \in Runs \ {r} : run[o].pc = "await"

NonIncreasing(seq) ==
    \A i, j \in 1..Len(seq) : i < j => seq[i] >= seq[j]

\* C9: what search_by_intent returns is in non-increasing order of
\* confidence, on the vector path and on the keyword path, with filters and
\* without; the rows NumpyIndex.search returns for the query are in that
\* order too.
C9_ResultsSorted ==
    /\ reply.kind = "search" =>
           NonIncreasing([i \in 1..Len(reply.results) |-> reply.results[i].confidence])
    /\ reply.kind = "search" =>
           LET sc == Scores(vectors, reply.query.emb)
               ix == NumpySearch(vectors, reply.query.emb,
                                 FetchCount(reply.top_k, Len(vectors)))
           IN  NonIncreasing([i \in 1..Len(ix) |-> sc[ix[i]]])

\* C9 witness: a filtered keyword search has returned two results of
\* different confidence, the better one stored after the other.
C9_KeywordResultsReordered ==
    /\ ~faiss
    /\ reply.kind = "search"
    /\ reply.filters # NoFilters
    /\ Len(reply.results) = 2
    /\ reply.results[1].confidence > reply.results[2].confidence
    /\ reply.results[1].result_id > reply.results[2].result_id

\* The orders in which an index may hand out its k best rows for the scores
\* sc: k different rows, best first, none left out that scores higher.
BestRows(sc, k) ==
    { c \in [1..k -> 1..Len(sc)] :
        /\ \A i, j \in 1..k : i < j => (c[i] # c[j] /\ sc[c[i]] >= sc[c[j]])
        /\ \A i \in 1..k, o \in 1..Len(sc) :
               (\A j \in 1..k : c[j] # o) => sc[o] <= sc[c[i]] }

\* C10: on the vector path the result is the first top_k of the
\* min(3 * top_k, ntotal) best rows, in score order, that pass the filters,
\* all of them when fewer pass, and never more than top_k.
C10_TopKOfFetched ==
    (reply.kind = "search" /\ faiss /\ ~reply.raised) =>
        LET sc      == Scores(vectors, reply.query.emb)
            k       == Min2(reply.top_k * 3, Len(vectors))
            Pass(i) == ~FilteredOut(metadata[i], reply.filters)
        IN  /\ Len(reply.results) <= reply.top_k
            /\ \E c \in BestRows(sc, k) :
                   LET passing == SelectSeq(c, Pass)
                   IN  reply.results =
                           [i \in 1..Min2(reply.top_k, Len(passing)) |->
                               SearchResult(passing[i], metadata[passing[i]],
                                            sc[passing[i]])]

\* C10 witness: a search for one result of take 2 fetched the three best of
\* four rows, none of take 2, and returned nothing although the fourth row
\* passes the filter.
C10_FilterStarvesTopK ==
    /\ faiss
    /\ reply.kind = "search" /\ ~reply.raised
    /\ reply.top_k = 1
    /\ reply.ntotal = 4
    /\ reply.filters.has_take /\ reply.filters.take_id = 2
    /\ reply.results = <<>>
    /\ \E i \in 1..Len(metadata) : ~FilteredOut(metadata[i], reply.filters)

-----------------------------------------------------------------------------
(* Claims C11 - C13. *)

\* C11 (as the specification states it): when a search is given a take_id
\* filter or an emotion filter, every result carries exactly that take
\* identifier or emotion label, whatever the value, 0 and "" included.
C11_FiltersAreEqualities ==
    reply.kind = "search" =>
        \A i \in 1..Len(reply.results) :
            /\ reply.filters.has_take =>
                   reply.results[i].take_id = reply.filters.take_id
            /\ reply.filters.has_emotion =>
                   reply.results[i].emotion_label = reply.filters.emotion

\* Equal scores keep the order in which their moments were added.
TiesInInsertionOrder(score, row) ==
    \A i, j \in 1..Len(score) :
        (i < j /\ score[i] = score[j]) => row[i] < row[j]

\* C12 (as the specification states it): among results of equal score the
\* moment added earlier comes first, in what the keyword search returns and
\* in the rows NumpyIndex.search returns.
C12_TiesByInsertion ==
    ~faiss =>
        /\ reply.kind = "search" =>
               TiesInInsertionOrder(
                   [i \in 1..Len(reply.results) |-> reply.results[i].confidence],
                   [i \in 1..Len(reply.results) |-> reply.results[i].result_id])
        /\ \A q \in Queries :
               LET ix == NumpySearch(vectors, q.emb, Len(vectors))
                   sc == Scores(vectors, q.emb)
               IN  TiesInInsertionOrder([i \in 1..Len(ix) |-> sc[ix[i]]], ix)

\* The score the search computed for stored row number idx, before anything
\* is made of it, in hundredths: the inner product on the vector path, the
\* sum of the field weights on the keyword path.
RawScore(idx) ==
    IF faiss THEN Scores(vectors, reply.query.emb)[idx]
    ELSE 100 * Matches(reply.query.terms, metadata[idx])

\* C13 (as the specification states it): the confidence of every result is
\* within the fixed range 0..1 (0..100 hundredths) and is a rescaling of
\* the score, on no path the score itself as the index or the scan gave it.
C13_ConfidenceRescaled ==
    reply.kind = "search" =>
        \A i \in 1..Len(reply.results) :
            /\ reply.results[i].confidence \in 0..100
            /\ reply.results[i].confidence # RawScore(reply.results[i].result_id + 1)

-----------------------------------------------------------------------------
(* Claims C14 - C16. *)

\* C14 (as the specification states it): without a text-embedding model a
\* search does not go to the vector index: what it returns is what the
\* keyword scoring returns.
C14_NoModelMeansKeywords ==
    (reply.kind = "search" /\ ~sentence_model /\ ~reply.raised) =>
        reply.results =
            keyword_search(metadata, reply.query.terms, reply.top_k, reply.filters)

\* C15: on an index that holds no moments search_by_intent returns the
\* empty list and raises nothing, for every query, top_k and filter.
C15_EmptyIndexNoError ==
    /\ (reply.kind = "search" /\ reply.nmeta = 0) =>
           (~reply.raised /\ reply.results = <<>>)
    /\ metadata = <<>> =>
           \A q \in Queries, k \in TopKs, f \in FilterSet :
               search_by_intent(faiss, vectors, metadata, q, k, f) = {Returned(<<>>)}

\* C15 witness: a filtered search with FAISS found nothing on an index that
\* clear_index had emptied.
C15_SearchAfterClear ==
    /\ faiss
    /\ reply.kind = "search" /\ ~reply.raised
    /\ reply.nmeta = 0 /\ reply.results = <<>>
    /\ reply.top_k = MaxTopK
    /\ reply.filters.has_take
    /\ disk.hasMeta /\ disk.meta = <<>>

\* The run on take t logged the index call and, next, the failure: the
\* index_moment call raised (in the model: on a row of another width).
AddRejected(t) ==
    LET logs == progress[t].logs
    IN  /\ Len(logs) >= 2
        /\ logs[Len(logs) - 1] = IndexingLogs[Len(IndexingLogs)]
        /\ logs[Len(logs)] = IndexingErrorLine

\* C16 (as the specification states it): when the vector handed to the
\* index has another length than the index's dimension, no row and no
\* record is left behind and the take ends in status "error", not
\* "completed".
C16_MismatchStopsIngestion ==
    \A t \in ExistingTakes :
        (Settled(t) /\ AddRejected(t)) =>
            /\ Len(vectors) = Len(metadata)
            /\ progress[t].status = "error"

-----------------------------------------------------------------------------
(* Claims C17 - C18. *)

\* What process_take leaves for the caller when a stage raised: the status
\* "error" and the ERROR line of the except clause.
StageFailureStatus == MarkError(InitProgress).status

\* C17 (as the specification states it): process_take for a take without a
\* row runs no stage and leaves an explicit not-found condition, one a
\* caller can tell from a stage failure: another status than a failed
\* stage's, or a log line that names the condition.
C17_NotFoundIsExplicit ==
    \A t \in TakeIds \ ExistingTakes :
        hist[t].started =>
            /\ \A i \in 1..NumStages : progress[t].stages[i] = "pending"
            /\ \/ progress[t].status # StageFailureStatus
               \/ progress[t].logs # <<>>

\* The words of phrase all occur in the text.
HasPhrase(phrase, text) == \A i \in 1..Len(phrase) : phrase[i] \in text

\* The record's dialogue contains an expansion of a query word that is an
\* abbreviation of the table, and the word itself is in none of its fields.
ExpansionOnly(terms, m) ==
    /\ \E ph \in expand_query(terms) \ {<<terms[i]>> : i \in 1..Len(terms)} :
           HasPhrase(ph, m.transcript)
    /\ Matches(terms, m) = 0

\* C18 (as the specification states it): a search for an abbreviation of
\* the table, asking for at least one result, returns a moment whose
\* dialogue contains one of its expansions although the abbreviation is
\* nowhere in the moment, whenever the index holds such a moment.
C18_AbbreviationFindsExpansion ==
    (/\ reply.kind = "search" /\ ~reply.raised
     /\ reply.query \in AbbreviationQueries
     /\ reply.top_k >= 1
     /\ \E i \in 1..Len(metadata) : ExpansionOnly(reply.query.terms, metadata[i]))
    => \E i \in 1..Len(reply.results) :
           ExpansionOnly(reply.query.terms, metadata[reply.results[i].result_id + 1])

-----------------------------------------------------------------------------
(* Claims C19 - C20. *)

\* The categories that have a keyword in the transcript.
SpokenCategories(transcript) ==
    UNION {KeywordOf(transcript[i]) : i \in 1..Len(transcript)}

\* Calm, simple footage without laughter or hesitation, under a file name
\* that hints at no category.
NoOtherSignal(inp) ==
    /\ \A h \in inp.file.words : FilenameHintOf(h) = {}
    /\ VisualEmotion(inp.cv, inp.file) = "neutral"
    /\ AudioEmotion(inp.audio) = "neutral"

\* C19 (as the specification states it): a take whose transcript has
\* keywords of exactly one category, with no signal from the file name, the
\* audio or the footage, is labelled with that category.
C19_SingleCategoryWins ==
    (/\ reply.kind = "inference"
     /\ Cardinality(SpokenCategories(reply.input.transcript)) = 1
     /\ NoOtherSignal(reply.input))
    => reply.out[1].emotion \in SpokenCategories(reply.input.transcript)

\* C20: two takes that differ in their identifier only get the same label
\* and the same embedding in one process, with or without the sentence
\* model and also when no category scores.
C20_LabelIgnoresTakeId ==
    reply.kind = "inference" =>
        /\ reply.out[1].emotion = reply.out[2].emotion
        /\ reply.out[1].embedding = reply.out[2].embedding

\* C20 witness: without the sentence model, two different takes with a
\* transcript and a file name that score in no category have been labelled.
C20_ZeroScoresMockModel ==
    /\ reply.kind = "inference"
    /\ ~sentence_model
    /\ reply.takes[1] # reply.takes[2]
    /\ \A e \in DOMAIN analyze_emotion(reply.input.transcript, reply.input.file).scores :
           analyze_emotion(reply.input.transcript, reply.input.file).scores[e] = 0
    /\ reply.out[1].embedding[1] = "randn"

-----------------------------------------------------------------------------
(* Claims C21 - C23. *)

\* C21 (as the specification states it): expand_query gives a query and
\* any permutation of its words the same term set, and gives the same query
\* the same term set when called again.
C21_ExpansionIgnoresOrder ==
    reply.kind = "expansion" =>
        /\ reply.terms = reply.other_terms
        /\ reply.terms = reply.again

\* C22: the analyze-full, metadata and status endpoints answer 404 for a
\* take identifier without a row, and have run no analysis for it.
C22_MissingTakeIs404 ==
    (reply.kind = "http" /\ reply.take_id \notin DOMAIN db)
    => (reply.out.status_code = 404 /\ ~reply.out.analysed)

\* C22 witness: analyze-full has been asked for a take without a row while
\* the table holds an analysed row of another take.
C22_AnalyzeFullOfMissingTake ==
    /\ reply.kind = "http"
    /\ reply.endpoint = "analyze-full"
    /\ reply.take_id \notin DOMAIN db
    /\ \E t \in DOMAIN db : db[t].meta # {}

\* The key each of the first four stages writes to take.ai_reasoning.
ReasoningKey == <<"cv", "audio", "nlp", "summary">>

\* C23 (as the specification states it): while a run is under way, the
\* entries the stages it has finished wrote to the metadata map and to the
\* reasoning map of its take are all still in the maps.
C23_EarlierEntriesKept ==
    \A r \in Runs :
        run[r].pc # "idle" =>
            \A i \in 1..Min2(run[r].stage - 1, Len(StageKey)) :
                /\ StageKey[i] \in run[r].meta
                /\ ReasoningKey[i] \in run[r].reasoning

-----------------------------------------------------------------------------
(* Claims C24 - C26. *)

\* C24 (as the specification states it): analyze_emotion reports at least
\* one detected emotion, whether a category reaches the threshold or not
\* and whether all scores are zero or not.
C24_SomeEmotionDetected ==
    reply.kind = "emotion" => reply.out.detected_emotions # <<>>

\* The index holds a row and a record for a moment of take t.
Indexed(t) ==
    \E i \in 1..Min2(Len(vectors), Len(metadata)) : metadata[i].take_id = t

\* C25 (as the specification states it): a take whose status is
\* "completed" has its moment in the intent index.
C25_CompletedMeansIndexed ==
    \A t \in DOMAIN progress :
        progress[t].status = "completed" => (progress[t].progress = 100 /\ Indexed(t))

\* C26 (as the specification states it): a take whose status is
\* "completed" or "error" has no stage marked "running", and its
\* current_stage is None or names a stage that is completed.
C26_TerminalHasNoRunningStage ==
    \A t \in DOMAIN progress :
        progress[t].status \in Terminal =>
            /\ \A i \in 1..NumStages : progress[t].stages[i] # "running"
            /\ \/ progress[t].current_stage = "None"
               \/ \E i \in 1..NumStages :
                      /\ StageName[i] = progress[t].current_stage
                      /\ progress[t].stages[i] = "completed"

-----------------------------------------------------------------------------
(* Claims C27 - C30. *)

\* C27 (as the specification states it): after any sequence of
\* process_take runs the records of the index have different moment
\* identifiers, so a take has at most one moment.
C27_MomentIdsUnique ==
    \A i, j \in 1..Len(metadata) :
        metadata[i].moment_id = metadata[j].moment_id => i = j

\* C28 (as the specification states it): every session a process_take run
\* opened is closed when the run is over, so the sessions that are open are
\* those of the runs in flight.
C28_SessionsClosed ==
    openSessions = Cardinality({r \in Runs : run[r].pc # "idle"})

\* The ProgressStates a run can end with when it is the only run: from the
\* record rec at the head of the loop for stage s, every stage fails or
\* completes (Intelligence Scoring only completes, Intent Indexing
\* completes with one of its four logs).
RECURSIVE SoloFinals(_, _)
SoloFinals(rec, s) ==
    IF s > NumStages THEN {MarkDone(rec)}
    ELSE LET begun == AppendLogs(MarkRunning(rec, s),
                                 IF s = NumStages THEN IndexingIntro ELSE <<>>)
             weight == SumSeq(SubSeq(StageWeight, 1, s))
             outcomes ==
                 IF s < NumStages THEN {<<>>}
                 ELSE {<<IndexingErrorLine>>,
                       IndexingLogs \o <<IndexingErrorLine>>,
                       IndexingLogs \o <<SavingLine, IndexingErrorLine>>,
                       IndexingLogs \o <<SavingLine, IndexedLine>>}
         IN  (IF Awaits(s) /\ s < NumStages THEN {MarkError(begun)} ELSE {})
             \cup UNION {SoloFinals(MarkCompleted(AppendLogs(begun, lines), s, weight), s + 1) :
                            lines \in outcomes}

\* No take was passed to process_take twice.
EachTakeOnce == Cardinality({t \in TakeIds : hist[t].started}) = starts

\* C29: a step of a run changes the ProgressState of its own take only,
\* and when every take was processed once, by runs that may have
\* interleaved, a take whose run is over has a ProgressState that a run on
\* its own can end with.
C29_RunsKeepToTheirTake ==
    /\ [][\A t \in DOMAIN progress :
             (t \in DOMAIN progress' /\ progress'[t] # progress[t]) =>
                 \E r \in Runs : /\ run'[r] # run[r]
                                 /\ (run[r].take = t \/ run'[r].take = t)
                                 /\ \A o \in Runs \ {r} : run'[o] = run[o]]_vars
    /\ [](EachTakeOnce =>
            \A t \in ExistingTakes :
                (hist[t].started /\ InFlight(t) = {}) =>
                    progress[t] \in SoloFinals(InitProgress, 1))

\* C29 witness: two runs on different takes are in flight, each past its
\* second stage.
C29_TwoTakesInterleaved ==
    \E r, o \in Runs :
        /\ run[r].pc # "idle" /\ run[o].pc # "idle"
        /\ run[r].take # run[o].take
        /\ run[r].stage >= 3 /\ run[o].stage >= 3

\* C30 (as the specification states it): whenever a run awaits the
\* Script Alignment analyzer, align_script returns a result mapping for the
\* run's transcript, with or without a language model.
C30_AlignmentReturnsMapping ==
    \A r \in Runs :
        (run[r].pc = "await" /\ run[r].stage = 3) =>
            align_script(spacy, run[r].transcript) \in {"mock", "incomplete", "aligned"}

====
